---- MODULE Spec2Model ----
(***************************************************************************)
(* A model of listmonk's campaign handlers (campaigns.go: status updates,  *)
(* content updates, deletion) and of the e-mail messenger                  *)
(* (internal/messenger/emailer.go).                                        *)
(*                                                                         *)
(* One campaign row lives in the store.  Every HTTP handler is a sequence  *)
(* of steps whose boundaries are its calls into the store (and its read of *)
(* the clock); handlers of different requests interleave between steps.    *)
(* Of the row a handler read (cm) it keeps the id only once its checks are *)
(* done, so a handler in flight holds its bound request (o) and no more.   *)
(***************************************************************************)
EXTENDS Integers, Sequences, FiniteSets, TLC

\* ------------------------------------------------------------------ bounds
\* Number of concurrent request handlers.
NumProcs == 2
\* The clock runs over 0..MaxTime.
MaxTime == 1
\* Content values are 0..MaxBody (one value stands for name, subject, body,
\* lists, ... which UpdateCampaign writes together).
MaxBody == 1

Procs == 1..NumProcs
Times == 0..MaxTime
Bodies == 0..MaxBody

\* --------------------------------------------------------------- constants
CampaignStatusDraft == "draft"
CampaignStatusScheduled == "scheduled"
CampaignStatusRunning == "running"
CampaignStatusPaused == "paused"
CampaignStatusCancelled == "cancelled"
CampaignStatusFinished == "finished"

\* The campaign_status values the store holds.
Statuses ==
  { CampaignStatusDraft, CampaignStatusScheduled, CampaignStatusRunning,
    CampaignStatusPaused, CampaignStatusCancelled, CampaignStatusFinished }

\* What a client may put in the "status" field of a request: any string;
\* "bogus" stands for the strings outside the six statuses.
ReqStatuses == Statuses \cup {"bogus"}

\* null.Time
NullTime == [Valid |-> FALSE, Time |-> 0]
SomeTime(t) == [Valid |-> TRUE, Time |-> t]
NullTimes == {NullTime} \cup {SomeTime(t) : t \in Times}

VARIABLES
  campaign,  \* the stored row: [exists, Status, SendAt, Body]
  now,       \* time.Now()
  pc,        \* pc[p]: where handler p stands
  o,         \* o[p]: the campaignReq handler p bound from its request
  last       \* the request that returned last: its handler and its response

VARIABLES
  ts,        \* the test-send request: [pc, n, out, res]
  stats      \* the campaignStats row the stats handler returned last

\* The variables of the test-send and of the stats handler, which no other
\* operation writes.
tvars == <<ts, stats>>

cvars == <<campaign, now, pc, o, last, tvars>>

VARIABLES
  servers,   \* the configurations NewEmailer was called with
  idx,       \* NewEmailer's position in its loop over servers
  e,         \* the Emailer under construction: [servers, serverNames, numServers]
  pools,     \* pools[i]: the i-th pool smtppool.New returned, "open" or "closed"
  ret        \* what NewEmailer returned: "none" (not yet), "ok", "err"

VARIABLES
  ppc,       \* ppc[p]: where Push call p stands: "idle" or "send"
  env,       \* env[p]: the envelope of call p: [m, atts, hdrs]
  em,        \* em[p]: the smtppool.Email call p has built
  plast,     \* the Push that returned last: its result and what a pool got
  cbuf,      \* cbuf[i]: the bytes of the caller's i-th attachment buffer
  cl         \* the Close call: [pc, todo, err, tries]

pvars == <<ppc, env, em, plast, cbuf, cl>>

evars == <<servers, idx, e, pools, ret, pvars, tvars>>

\* The variables of the messenger alone.
mvars == <<servers, idx, e, pools, ret, pvars>>

vars == <<campaign, now, pc, o, last, servers, idx, e, pools, ret,
          ppc, env, em, plast, cbuf, cl, ts, stats>>

\* The request was not given this field (Bind leaves the field as it was).
Absent == -1

NoReq == [Status |-> "", SendAt |-> NullTime, SendLater |-> FALSE,
          Body |-> 0, fieldsOK |-> FALSE]

\* A returned request: the handler and its response.
Returned(kind, resp) == [kind |-> kind, res |-> resp]

CampaignInit ==
  /\ campaign \in [exists : {TRUE}, Status : {CampaignStatusDraft},
                   SendAt : NullTimes, Body : {0}]
  /\ now = 0
  /\ pc = [p \in Procs |-> "idle"]
  /\ o = [p \in Procs |-> NoReq]
  /\ last = Returned("none", "none")

\* ------------------------------------------------------------------ store
\* The store is the persistence collaborator; its queries are not part of
\* the handlers' file.  Each operator is what the call made by the handler
\* can do with the arguments the handler passes.

\* store.GetCampaign(&cm, id): the row as the handler sees it.
GetCampaign ==
  [Status |-> campaign.Status, SendAt |-> campaign.SendAt, Body |-> campaign.Body]

\* A store whose status column takes any string.
UpdateCampaignStatusAnyString(status) ==
  IF ~campaign.exists
    THEN [err |-> FALSE, rows |-> 0, row |-> campaign]
    ELSE [err |-> FALSE, rows |-> 1, row |-> [campaign EXCEPT !.Status = status]]

\* store.UpdateCampaignStatus(id, status): the call carries the id and the new
\* status only.  The status column holds one of the six statuses and nothing
\* else, so any other value is an error of the store; otherwise the row with
\* that id, if there is one, gets the status.
UpdateCampaignStatus(status) ==
  IF status \notin Statuses
    THEN [err |-> TRUE, rows |-> 0, row |-> campaign]
    ELSE IF ~campaign.exists
      THEN [err |-> FALSE, rows |-> 0, row |-> campaign]
      ELSE [err |-> FALSE, rows |-> 1, row |-> [campaign EXCEPT !.Status = status]]

\* store.UpdateCampaign(id, name, subject, ..., sendAt, sendLater, ...): the
\* call carries the id and the new field values.  send_at is written when
\* sendLater is set and set to null otherwise.
UpdateCampaign(body, sendAt, sendLater) ==
  IF ~campaign.exists
    THEN [rows |-> 0, row |-> campaign]
    ELSE [rows |-> 1,
          row |-> [campaign EXCEPT !.Body = body,
                                   !.SendAt = IF sendLater THEN sendAt ELSE NullTime]]

\* store.DeleteCampaign(id): the call carries the id only.
DeleteCampaign ==
  IF ~campaign.exists
    THEN [rows |-> 0, row |-> campaign]
    ELSE [rows |-> 1, row |-> [campaign EXCEPT !.exists = FALSE]]

\* --------------------------------------------------------- pure functions
\* A variant that forgets the "finished" status.
isCampaignalMutableNoFinished(status) ==
  \/ status = CampaignStatusRunning
  \/ status = CampaignStatusCancelled

\* isCampaignalMutable: true when the campaign can NOT be modified.
isCampaignalMutable(status) ==
  \/ status = CampaignStatusRunning
  \/ status = CampaignStatusCancelled
  \/ status = CampaignStatusFinished

\* The switch of handleUpdateCampaignStatus: the error message for moving a
\* campaign read as cmv to the requested status ("" is no error).  The switch
\* has no case for "finished" and no default.
TransitionErrMsg(cmv, status) ==
  CASE status = CampaignStatusDraft ->
         IF cmv.Status # CampaignStatusScheduled
           THEN "campaigns.onlyScheduledAsDraft" ELSE ""
    [] status = CampaignStatusScheduled ->
         IF ~cmv.SendAt.Valid
           THEN "campaigns.needsSendAt"
           ELSE IF cmv.Status # CampaignStatusDraft
             THEN "campaigns.onlyDraftAsScheduled" ELSE ""
    [] status = CampaignStatusRunning ->
         IF cmv.Status # CampaignStatusPaused /\ cmv.Status # CampaignStatusDraft
           THEN "campaigns.onlyPausedDraft" ELSE ""
    [] status = CampaignStatusPaused ->
         IF cmv.Status # CampaignStatusRunning
           THEN "campaigns.onlyActivePause" ELSE ""
    [] status = CampaignStatusCancelled ->
         IF cmv.Status # CampaignStatusRunning /\ cmv.Status # CampaignStatusPaused
           THEN "campaigns.onlyActiveCancel" ELSE ""
    [] OTHER -> ""

\* validateCampaignFields: fieldsOK stands for the checks of from_email, name,
\* subject, lists, messenger and template; a send_at that is set must not be
\* before time.Now().
validateCampaignFields(c, t) ==
  /\ c.fieldsOK
  /\ (c.SendAt.Valid => ~(c.SendAt.Time < t))


\* ------------------------------------------------- handleUpdateCampaignStatus
\* A variant that sends the update to the store before it looks at errMsg.
StatusGetWriteFirst(p, status) ==
  /\ pc[p] = "idle"
  /\ IF ~campaign.exists
       THEN /\ last' = Returned("status", "notFound")
            /\ UNCHANGED <<campaign, pc, o>>
       ELSE IF TransitionErrMsg(GetCampaign, status) # ""
         THEN /\ campaign' = UpdateCampaignStatus(status).row
              /\ last' = Returned("status", "invalidTransition")
              /\ UNCHANGED <<pc, o>>
         ELSE /\ o' = [o EXCEPT ![p] = [NoReq EXCEPT !.Status = status]]
              /\ pc' = [pc EXCEPT ![p] = "status"]
              /\ UNCHANGED <<campaign, last>>
  /\ UNCHANGED now
  /\ UNCHANGED evars

\* GetCampaign, Bind, the switch on o.Status and the return on errMsg: the
\* handler either returns or holds the status it is about to write.
StatusGet(p, status) ==
  /\ pc[p] = "idle"
  /\ IF ~campaign.exists
       THEN /\ last' = Returned("status", "notFound")
            /\ UNCHANGED <<pc, o>>
       ELSE IF TransitionErrMsg(GetCampaign, status) # ""
         THEN /\ last' = Returned("status", "invalidTransition")
              /\ UNCHANGED <<pc, o>>
         ELSE /\ o' = [o EXCEPT ![p] = [NoReq EXCEPT !.Status = status]]
              /\ pc' = [pc EXCEPT ![p] = "status"]
              /\ last' = last
  /\ UNCHANGED <<campaign, now>>
  /\ UNCHANGED evars

\* UpdateCampaignStatus, its error, and the check of RowsAffected.
StatusPut(p) ==
  /\ pc[p] = "status"
  /\ LET r == UpdateCampaignStatus(o[p].Status)
     IN /\ campaign' = r.row
        /\ last' = Returned("status",
                            IF r.err THEN "errorUpdating"
                            ELSE IF r.rows = 0 THEN "notFound" ELSE "ok")
  /\ pc' = [pc EXCEPT ![p] = "idle"]
  /\ o' = [o EXCEPT ![p] = NoReq]
  /\ UNCHANGED now
  /\ UNCHANGED evars

\* ------------------------------------------------------- handleUpdateCampaign
\* GetCampaign, the isCampaignalMutable check and Bind.  Bind reads the
\* request into the fields read from the store: a field the request does not
\* carry keeps the value that was read.
UpdateGet(p, body, sendAt, sendLater, fieldsOK) ==
  /\ pc[p] = "idle"
  /\ IF ~campaign.exists
       THEN /\ last' = Returned("update", "notFound")
            /\ UNCHANGED <<pc, o>>
       ELSE IF isCampaignalMutable(GetCampaign.Status)
         THEN /\ last' = Returned("update", "campaigns.cantUpdate")
              /\ UNCHANGED <<pc, o>>
         ELSE /\ o' = [o EXCEPT ![p] =
                         [Status |-> "",
                          Body |-> IF body = Absent THEN GetCampaign.Body ELSE body,
                          SendAt |-> IF sendAt = Absent THEN GetCampaign.SendAt
                                     ELSE SomeTime(sendAt),
                          SendLater |-> sendLater,
                          fieldsOK |-> fieldsOK]]
              /\ pc' = [pc EXCEPT ![p] = "validate"]
              /\ last' = last
  /\ UNCHANGED <<campaign, now>>
  /\ UNCHANGED evars

\* validateCampaignFields, which reads the clock.
UpdateValidate(p) ==
  /\ pc[p] = "validate"
  /\ IF validateCampaignFields(o[p], now)
       THEN /\ pc' = [pc EXCEPT ![p] = "update"]
            /\ UNCHANGED <<o, last>>
       ELSE /\ pc' = [pc EXCEPT ![p] = "idle"]
            /\ o' = [o EXCEPT ![p] = NoReq]
            /\ last' = Returned("update", "invalidFields")
  /\ UNCHANGED <<campaign, now>>
  /\ UNCHANGED evars

\* store.UpdateCampaign; the handler looks at the error only.
UpdatePut(p) ==
  /\ pc[p] = "update"
  /\ campaign' = UpdateCampaign(o[p].Body, o[p].SendAt, o[p].SendLater).row
  /\ last' = Returned("update", "ok")
  /\ pc' = [pc EXCEPT ![p] = "idle"]
  /\ o' = [o EXCEPT ![p] = NoReq]
  /\ UNCHANGED now
  /\ UNCHANGED evars

\* ------------------------------------------------------- handleDeleteCampaign
\* GetCampaign; the handler uses the id of the row only.
DeleteGet(p) ==
  /\ pc[p] = "idle"
  /\ IF campaign.exists
       THEN /\ pc' = [pc EXCEPT ![p] = "delete"]
            /\ last' = last
       ELSE /\ last' = Returned("delete", "notFound")
            /\ pc' = pc
  /\ UNCHANGED <<campaign, now, o>>
  /\ UNCHANGED evars

\* store.DeleteCampaign(cm.ID) and the reply okResp{true}.
DeletePut(p) ==
  /\ pc[p] = "delete"
  /\ campaign' = DeleteCampaign.row
  /\ last' = Returned("delete", "ok")
  /\ pc' = [pc EXCEPT ![p] = "idle"]
  /\ UNCHANGED <<now, o>>
  /\ UNCHANGED evars

\* ------------------------------------------------------------- environment
\* The delivery process, outside the handlers: a running campaign whose
\* recipients have all been processed becomes finished.
DeliveryCompletion ==
  /\ campaign.exists
  /\ campaign.Status = CampaignStatusRunning
  /\ campaign' = [campaign EXCEPT !.Status = CampaignStatusFinished]
  /\ UNCHANGED <<now, pc, o, last>>
  /\ UNCHANGED evars

\* Time passes.
Tick ==
  /\ now < MaxTime
  /\ now' = now + 1
  /\ UNCHANGED <<campaign, pc, o, last>>
  /\ UNCHANGED evars

\* ------------------------------------------------------------- NewEmailer
\* Bound on the number of server configurations given to NewEmailer.
MaxServers == 2

Names == {"a", "b"}
\* Values of auth_protocol in a configuration; "bogus" stands for the strings
\* that are none of the others.
AuthProtocols == {"", "none", "cram", "plain", "login", "bogus"}

\* A Server as configured.  poolOK: whether smtppool.New succeeds on its Opt.
\* NewEmailer reads neither EmailFormat nor InjectHeaders: the configurations
\* its model is run on leave both empty.
Server == [Name : Names, AuthProtocol : AuthProtocols, poolOK : BOOLEAN,
           EmailFormat : {""}, InjectHeaders : {<<>>}]

ServerLists == UNION {[1..n -> Server] : n \in 0..MaxServers}

\* The *Emailer NewEmailer returns with an error.
NilEmailer == [nil |-> TRUE, servers |-> [n \in Names |-> 0],
               serverNames |-> <<>>, numServers |-> 0]

EmailerInit ==
  /\ servers = <<>>
  /\ idx = 0
  /\ e = NilEmailer
  /\ pools = <<>>
  /\ ret = "none"

\* The switch on s.AuthProtocol: TRUE when it reaches the default case.
UnknownAuth(auth) == auth \notin {"cram", "plain", "login", ""}

\* e := &Emailer{servers: make(map[string]*Server)}
NewEmailerBegin(srvs) ==
  /\ ret = "none"
  /\ idx = 0
  /\ servers' = srvs
  /\ idx' = 1
  /\ e' = [NilEmailer EXCEPT !.nil = FALSE]
  /\ UNCHANGED <<pools, ret>>
  /\ UNCHANGED <<cvars, pvars>>

\* One iteration of the loop over servers.  servers[name] holds the index in
\* pools of the pool of the entry stored under that name (0: no entry).
NewEmailerEntry ==
  /\ ret = "none"
  /\ idx \in 1..Len(servers)
  /\ LET s == servers[idx]
     IN IF UnknownAuth(s.AuthProtocol) \/ ~s.poolOK
          THEN /\ ret' = "err"
               /\ e' = NilEmailer
               /\ UNCHANGED <<pools, idx>>
          ELSE /\ pools' = Append(pools, "open")
               /\ e' = [e EXCEPT !.servers[s.Name] = Len(pools) + 1,
                                 !.serverNames = Append(e.serverNames, s.Name)]
               /\ idx' = idx + 1
               /\ ret' = ret
  /\ UNCHANGED servers
  /\ UNCHANGED <<cvars, pvars>>

\* e.numServers = len(e.serverNames); return e, nil
NewEmailerReturn ==
  /\ ret = "none"
  /\ idx = Len(servers) + 1
  /\ e' = [e EXCEPT !.numServers = Len(e.serverNames)]
  /\ ret' = "ok"
  /\ UNCHANGED <<servers, idx, pools>>
  /\ UNCHANGED <<cvars, pvars>>

\* ------------------------------------------------------------ Emailer.Push
\* Length of an injection rule ("Key: Value"), rules per server, tokens per
\* message body, attachments per call, bytes per attachment.
MaxRuleLen == 3
MaxRules == 1
MaxHtmlLen == 1
MaxAtts == 1
MaxAttLen == 1

\* The characters of an injection rule: a letter, the colon and the space.
Chars == {"x", ":", " "}
RuleStrings == UNION {[1..k -> Chars] : k \in 0..MaxRuleLen}
RuleLists == UNION {[1..k -> RuleStrings] : k \in 0..MaxRules}

\* Values of email_format; "bogus" stands for the strings that are none of
\* the others.
EmailFormats == {"", "html", "plain", "bogus"}

\* The servers Push is run on: their pools open, any content policy.
PushServer == [Name : Names, AuthProtocol : {""}, poolOK : {TRUE},
               EmailFormat : EmailFormats, InjectHeaders : RuleLists]

\* A message body m: a markup token, a text token, or a token on which the
\* HTML parser of html2text fails.
HtmlTokens == {"tag", "txt", "bad"}
HtmlBodies == UNION {[1..k -> HtmlTokens] : k \in 0..MaxHtmlLen}

\* A []byte that was not assigned.
Nil == <<"nil">>

Bytes == {0, 1}
Buffers == [1..MaxAttLen -> Bytes]

\* The caller's buffers: its attachments are slices of one buffer.
CallerBufs == {1}

\* The caller's attachments.  Content is a slice: the first len bytes of the
\* caller's buffer buf.
Attachment == [Name : {"f", "g"}, Header : {"h"},
               Content : [buf : CallerBufs, len : 0..MaxAttLen]]
\* atts: nil, or a slice of attachments.
NilAtts == [nil |-> TRUE, list |-> <<>>]
AttachmentLists ==
  {NilAtts} \cup {[nil |-> FALSE, list |-> l] :
                    l \in UNION {[1..k -> Attachment] : k \in 0..MaxAtts}}

\* textproto.MIMEHeader with no key.
EmptyHeaders == [k \in {} |-> <<>>]

\* The envelope's caller-supplied header: none, or one value for the key X.
EnvHeaders == {EmptyHeaders, [k \in {<<"X">>} |-> <<<<"c">>>>]}

NoEmail == [key |-> "", Headers |-> EmptyHeaders, HTML |-> Nil, Text |-> Nil,
            Attachments |-> <<>>]

\* What the caller of Push holds: the body m, the attachments atts, and the
\* caller-supplied headers hdrs of its envelope.
Envelope(m, atts, hdrs) == [m |-> m, atts |-> atts, hdrs |-> hdrs]

NoEnv == Envelope(<<>>, NilAtts, EmptyHeaders)

NoPush == [p |-> 0, res |-> "none", pool |-> 0, open |-> FALSE,
           em |-> NoEmail, env |-> NoEnv]

NoClose == [pc |-> "idle", todo |-> {}, err |-> 0, tries |-> <<>>]

PushInit ==
  /\ ppc = [p \in Procs |-> "idle"]
  /\ env = [p \in Procs |-> NoEnv]
  /\ em = [p \in Procs |-> NoEmail]
  /\ plast = NoPush
  /\ cbuf = [i \in CallerBufs |-> [j \in 1..MaxAttLen |-> 0]]
  /\ cl = NoClose

\* strings.SplitN(header, ":", 2)
SplitN2(header) ==
  IF \E i \in DOMAIN header : header[i] = ":"
    THEN LET i == CHOOSE i \in DOMAIN header :
                    /\ header[i] = ":"
                    /\ \A j \in 1..(i - 1) : header[j] # ":"
         IN <<SubSeq(header, 1, i - 1), SubSeq(header, i + 1, Len(header))>>
    ELSE <<header>>

\* strings.TrimSpace
TrimSpace(str) ==
  IF \A i \in DOMAIN str : str[i] = " "
    THEN <<>>
    ELSE LET f == CHOOSE i \in DOMAIN str :
                    str[i] # " " /\ \A j \in 1..(i - 1) : str[j] = " "
             l == CHOOSE i \in DOMAIN str :
                    str[i] # " " /\ \A j \in (i + 1)..Len(str) : str[j] = " "
         IN SubSeq(str, f, l)

\* textproto.CanonicalMIMEHeaderKey: a key with a space is returned as it
\* is; otherwise the first letter is upper-cased and the others lower-cased.
CanonicalMIMEHeaderKey(k) ==
  IF \E i \in DOMAIN k : k[i] = " "
    THEN k
    ELSE [i \in DOMAIN k |-> IF i = 1 /\ k[i] = "x" THEN "X"
                             ELSE IF i > 1 /\ k[i] = "X" THEN "x" ELSE k[i]]

\* textproto.MIMEHeader.Add
MIMEHeaderAdd(h, k, v) ==
  LET ck == CanonicalMIMEHeaderKey(k)
  IN IF ck \in DOMAIN h
       THEN [h EXCEPT ![ck] = Append(@, v)]
       ELSE [x \in DOMAIN h \cup {ck} |-> IF x = ck THEN <<v>> ELSE h[x]]

\* The body of the loop over srv.InjectHeaders.
InjectHeader(h, header) ==
  LET headerParts == SplitN2(header)
  IN IF Len(headerParts) = 2 /\ Len(headerParts[1]) > 0 /\ Len(headerParts[2]) > 0
       THEN MIMEHeaderAdd(h, headerParts[1], TrimSpace(headerParts[2]))
       ELSE h

RECURSIVE InjectHeaders(_, _)
\* for _, header := range srv.InjectHeaders
InjectHeaders(h, rules) ==
  IF rules = <<>> THEN h
  ELSE InjectHeaders(InjectHeader(h, Head(rules)), Tail(rules))

\* html2text.FromString: the text tokens of m, or an error.
FromString(m) ==
  [err |-> \E i \in DOMAIN m : m[i] = "bad",
   text |-> SelectSeq(m, LAMBDA t : t = "txt")]

\* The switch on srv.EmailFormat with the plain case also keeping the HTML.
BodyPartsPlainKeepsHTML(format, m, mtext) ==
  CASE format = "html" -> [HTML |-> m, Text |-> Nil]
    [] OTHER -> [HTML |-> m, Text |-> mtext]

\* The switch on srv.EmailFormat.
BodyParts(format, m, mtext) ==
  CASE format = "html" -> [HTML |-> m, Text |-> Nil]
    [] format = "plain" -> [HTML |-> Nil, Text |-> mtext]
    [] OTHER -> [HTML |-> m, Text |-> mtext]

\* An attachment whose Content is the caller's slice itself.
CopyAttachmentAliased(f) ==
  [Filename |-> f.Name, Header |-> f.Header,
   Content |-> [alias |-> f.Content.buf, len |-> f.Content.len, bytes |-> <<>>]]

\* smtppool.Attachment{...} and copy(a.Content, f.Content): a buffer of its
\* own (alias 0), as long as the caller's slice, that holds the bytes the
\* caller's slice holds now.
CopyAttachment(f) ==
  [Filename |-> f.Name, Header |-> f.Header,
   Content |-> [alias |-> 0, len |-> f.Content.len,
                bytes |-> SubSeq(cbuf[f.Content.buf], 1, f.Content.len)]]

\* The bytes of an attachment of a message, as the pool reads them.
ContentOf(a) ==
  IF a.Content.alias = 0 THEN a.Content.bytes
  ELSE SubSeq(cbuf[a.Content.alias], 1, a.Content.len)

\* files: nil when atts is nil.
CopyAttachments(atts) ==
  IF atts.nil THEN <<>>
  ELSE [i \in DOMAIN atts.list |-> CopyAttachment(atts.list[i])]

\* The entry e.servers[key]: the configuration whose pool is pools[i].
EntryOf(key) == servers[e.servers[key]]

\* key: e.serverNames[rand.Intn(e.numServers)] or e.serverNames[0].
SelectKeys ==
  IF e.numServers > 1
    THEN {e.serverNames[r + 1] : r \in 0..(e.numServers - 1)}
    ELSE {e.serverNames[1]}

\* Push that goes on to send after a failed conversion.
PushBuildIgnoresErr(p, m, atts, hdrs) ==
  /\ ret = "ok"
  /\ ppc[p] = "idle"
  /\ Len(e.serverNames) > 0
  /\ \E key \in SelectKeys :
       LET mtext == FromString(m)
           srv == EntryOf(key)
           parts == BodyParts(srv.EmailFormat, m, mtext.text)
       IN /\ em' = [em EXCEPT ![p] =
                      [key |-> key,
                       Headers |-> InjectHeaders(EmptyHeaders, srv.InjectHeaders),
                       HTML |-> parts.HTML, Text |-> parts.Text,
                       Attachments |-> CopyAttachments(atts)]]
          /\ env' = [env EXCEPT ![p] = Envelope(m, atts, hdrs)]
          /\ ppc' = [ppc EXCEPT ![p] = "send"]
          /\ UNCHANGED plast
  /\ UNCHANGED <<servers, idx, e, pools, ret, cbuf, cl>>
  /\ UNCHANGED cvars

\* Push up to its call of srv.pool.Send: the selection of the server, the
\* copy of the attachments, html2text, the headers and the body parts.
\* hdrs: the headers of the caller's envelope, for which Push has no
\* parameter.  With no server e.serverNames[0] is out of range: a panic.
PushBuild(p, m, atts, hdrs) ==
  /\ ret = "ok"
  /\ ppc[p] = "idle"
  /\ IF Len(e.serverNames) = 0
       THEN /\ plast' = [NoPush EXCEPT !.p = p, !.res = "panic",
                                       !.env = Envelope(m, atts, hdrs)]
            /\ UNCHANGED <<ppc, env, em>>
       ELSE \E key \in SelectKeys :
              LET mtext == FromString(m)
                  srv == EntryOf(key)
                  parts == BodyParts(srv.EmailFormat, m, mtext.text)
              IN IF mtext.err
                   THEN /\ plast' = [NoPush EXCEPT !.p = p, !.res = "renderError",
                                                   !.env = Envelope(m, atts, hdrs)]
                        /\ UNCHANGED <<ppc, env, em>>
                   ELSE /\ em' = [em EXCEPT ![p] =
                                    [key |-> key,
                                     Headers |-> InjectHeaders(EmptyHeaders,
                                                               srv.InjectHeaders),
                                     HTML |-> parts.HTML, Text |-> parts.Text,
                                     Attachments |-> CopyAttachments(atts)]]
                        /\ env' = [env EXCEPT ![p] = Envelope(m, atts, hdrs)]
                        /\ ppc' = [ppc EXCEPT ![p] = "send"]
                        /\ UNCHANGED plast
  /\ UNCHANGED <<servers, idx, e, pools, ret, cbuf, cl>>
  /\ UNCHANGED cvars

\* A pool that takes the message whether it is open or closed.
PoolSendAfterClose(i, ok) ==
  [delivered |-> TRUE, res |-> IF ok THEN "ok" ELSE "deliveryError"]

\* smtppool.Pool.Send on pool i: a closed pool refuses the message; an open
\* one takes it and reports the outcome of the transport (ok).
PoolSend(i, ok) ==
  IF pools[i] = "open"
    THEN [delivered |-> TRUE, res |-> IF ok THEN "ok" ELSE "deliveryError"]
    ELSE [delivered |-> FALSE, res |-> "closedError"]

\* Push that sends through the first pool, whichever entry was selected.
PushSendFirstPool(p, ok) ==
  /\ ppc[p] = "send"
  /\ LET i == 1
         r == PoolSend(i, ok)
     IN plast' = [p |-> p, res |-> r.res, pool |-> i, open |-> pools[i] = "open",
                  em |-> IF r.delivered THEN em[p] ELSE NoEmail, env |-> env[p]]
  /\ ppc' = [ppc EXCEPT ![p] = "idle"]
  /\ em' = [em EXCEPT ![p] = NoEmail]
  /\ env' = [env EXCEPT ![p] = NoEnv]
  /\ UNCHANGED <<servers, idx, e, pools, ret, cbuf, cl>>
  /\ UNCHANGED cvars

\* Push that sends again after a send that failed.
PushSendRetries(p, ok) ==
  /\ ppc[p] = "send"
  /\ LET i == e.servers[em[p].key]
         r == PoolSend(i, ok)
         again == r.res = "deliveryError"
     IN /\ plast' = [p |-> p, res |-> r.res, pool |-> i, open |-> pools[i] = "open",
                     em |-> IF r.delivered THEN em[p] ELSE NoEmail, env |-> env[p]]
        /\ ppc' = [ppc EXCEPT ![p] = IF again THEN "send" ELSE "idle"]
        /\ em' = [em EXCEPT ![p] = IF again THEN @ ELSE NoEmail]
        /\ env' = [env EXCEPT ![p] = IF again THEN @ ELSE NoEnv]
  /\ UNCHANGED <<servers, idx, e, pools, ret, cbuf, cl>>
  /\ UNCHANGED cvars

\* return srv.pool.Send(em)
PushSend(p, ok) ==
  /\ ppc[p] = "send"
  /\ LET i == e.servers[em[p].key]
         r == PoolSend(i, ok)
     IN plast' = [p |-> p, res |-> r.res, pool |-> i, open |-> pools[i] = "open",
                  em |-> IF r.delivered THEN em[p] ELSE NoEmail, env |-> env[p]]
  /\ ppc' = [ppc EXCEPT ![p] = "idle"]
  /\ em' = [em EXCEPT ![p] = NoEmail]
  /\ env' = [env EXCEPT ![p] = NoEnv]
  /\ UNCHANGED <<servers, idx, e, pools, ret, cbuf, cl>>
  /\ UNCHANGED cvars

\* The caller writes to its own attachment buffer.
CallerMutate(i, b) ==
  /\ ret = "ok"
  /\ i \in DOMAIN cbuf
  /\ b \in Buffers
  /\ b # cbuf[i]
  /\ cbuf' = [cbuf EXCEPT ![i] = b]
  /\ UNCHANGED <<servers, idx, e, pools, ret, ppc, env, em, plast, cl>>
  /\ UNCHANGED cvars

\* ----------------------------------------------------------- Emailer.Close
\* The pools the Emailer holds: those of the entries of e.servers.
OwnedPools == {e.servers[n] : n \in Names} \ {0}

CloseBegin ==
  /\ ret = "ok"
  /\ cl.pc = "idle"
  /\ cl' = [pc |-> "run", todo |-> OwnedPools, err |-> 0,
            tries |-> [i \in DOMAIN pools |-> 0]]
  /\ UNCHANGED <<servers, idx, e, pools, ret, ppc, env, em, plast, cbuf>>
  /\ UNCHANGED cvars

\* Close that returns at the first pool that fails to close.
CloseOneStopsAtError(i, ok) ==
  /\ cl.pc = "run"
  /\ i \in cl.todo
  /\ pools' = [pools EXCEPT ![i] = IF ok THEN "closed" ELSE @]
  /\ cl' = [cl EXCEPT !.todo = IF ok THEN @ \ {i} ELSE {},
                      !.tries[i] = @ + 1,
                      !.err = IF ~ok /\ @ = 0 THEN i ELSE @]
  /\ UNCHANGED <<servers, idx, e, ret, ppc, env, em, plast, cbuf>>
  /\ UNCHANGED cvars

\* Close closes one of the pools it has not tried yet, in any order; ok:
\* whether the pool closes.  The first error is kept (err: the pool it came
\* from, 0 for nil) and the loop goes on.
CloseOne(i, ok) ==
  /\ cl.pc = "run"
  /\ i \in cl.todo
  /\ pools' = [pools EXCEPT ![i] = IF ok THEN "closed" ELSE @]
  /\ cl' = [cl EXCEPT !.todo = @ \ {i},
                      !.tries[i] = @ + 1,
                      !.err = IF ~ok /\ @ = 0 THEN i ELSE @]
  /\ UNCHANGED <<servers, idx, e, ret, ppc, env, em, plast, cbuf>>
  /\ UNCHANGED cvars

CloseReturn ==
  /\ cl.pc = "run"
  /\ cl.todo = {}
  /\ cl' = [cl EXCEPT !.pc = "done"]
  /\ UNCHANGED <<servers, idx, e, pools, ret, ppc, env, em, plast, cbuf>>
  /\ UNCHANGED cvars

\* ------------------------------------------------------ handleTestCampaign
\* Subscribers of a test-send request.
MaxSubs == 3

\* What sendTestMessage meets for one subscriber: the template fails to
\* compile, the message fails to render, Push returns an error, Push
\* returns nil.
SendOutcomes == {"compileErr", "renderErr", "pushErr", "ok"}

NoTest == [pc |-> "idle", n |-> 0, out |-> <<>>, res |-> "none"]

\* handleTestCampaign up to its loop: Bind, validateCampaignFields, the
\* e-mails of the request (emails of them), the subscribers the store knows
\* among them (known), the campaign.
TestBegin(c, emails, known) ==
  /\ ts.pc \in {"idle", "done"}
  /\ known <= emails
  /\ ts' = IF ~validateCampaignFields(c, now)
             THEN [NoTest EXCEPT !.pc = "done", !.res = "invalidFields"]
           ELSE IF emails = 0
             THEN [NoTest EXCEPT !.pc = "done", !.res = "campaigns.noSubsToTest"]
           ELSE IF known = 0
             THEN [NoTest EXCEPT !.pc = "done", !.res = "campaigns.noKnownSubsToTest"]
           ELSE IF ~campaign.exists
             THEN [NoTest EXCEPT !.pc = "done", !.res = "notFound"]
           ELSE [NoTest EXCEPT !.pc = "loop", !.n = known]
  /\ UNCHANGED <<campaign, now, pc, o, last, stats>>
  /\ UNCHANGED mvars

\* The loop that logs the error of a subscriber and goes on to the next.
TestSendGoesOn(outcome) ==
  /\ ts.pc = "loop"
  /\ Len(ts.out) < ts.n
  /\ ts' = [ts EXCEPT !.out = Append(@, outcome)]
  /\ UNCHANGED <<campaign, now, pc, o, last, stats>>
  /\ UNCHANGED mvars

\* One iteration of the loop over subs: sendTestMessage for the next
\* subscriber; its error ends the request.  out: what each subscriber so far
\* has met.
TestSend(outcome) ==
  /\ ts.pc = "loop"
  /\ Len(ts.out) < ts.n
  /\ ts' = IF outcome = "ok"
             THEN [ts EXCEPT !.out = Append(@, outcome)]
             ELSE [ts EXCEPT !.out = Append(@, outcome), !.pc = "done",
                             !.res = "campaigns.errorSendTest"]
  /\ UNCHANGED <<campaign, now, pc, o, last, stats>>
  /\ UNCHANGED mvars

\* return c.JSON(http.StatusOK, okResp{true})
TestReturn ==
  /\ ts.pc = "loop"
  /\ Len(ts.out) = ts.n
  /\ ts' = [ts EXCEPT !.pc = "done", !.res = "ok"]
  /\ UNCHANGED <<campaign, now, pc, o, last, stats>>
  /\ UNCHANGED mvars

\* ------------------------------------------- handleGetRunningCampaignStats
\* Counts of messages, and the clock of the stats in ticks.
MaxSent == 3
MaxStamp == 4
\* Ticks in a minute.
TicksPerMinute == 2

Stamps == {NullTime} \cup {SomeTime(t) : t \in 0..MaxStamp}

\* A float64 that is the quotient of two integers.
Rat(num, den) == [num |-> num, den |-> den]
RatGT(r, q) == r.num * q.den > q.num * r.den
RatEQ(r, q) == r.num * q.den = q.num * r.den

\* The clamp with "and" for "or".
RateClampsOnBoth(c) ==
  IF c.Started.Valid /\ c.UpdatedAt.Valid
    THEN LET diff == Rat(c.UpdatedAt.Time - c.Started.Time, TicksPerMinute)
         IN IF RatGT(diff, Rat(0, 1))
              THEN LET sent == Rat(c.Sent, 1)
                       rate == Rat(sent.num * diff.den, sent.den * diff.num)
                   IN IF RatGT(rate, sent) /\ RatGT(rate, Rat(c.ToSend, 1))
                        THEN sent ELSE rate
              ELSE Rat(0, 1)
    ELSE Rat(0, 1)

\* A rate that is computed whatever the sign of the elapsed time.
RateNoElapsedTest(c) ==
  IF c.Started.Valid /\ c.UpdatedAt.Valid /\ c.UpdatedAt.Time # c.Started.Time
    THEN LET diff == Rat(c.UpdatedAt.Time - c.Started.Time, TicksPerMinute)
             sent == Rat(c.Sent, 1)
             rate == IF diff.num > 0
                       THEN Rat(sent.num * diff.den, sent.den * diff.num)
                       ELSE Rat(0 - sent.num * diff.den, 0 - sent.den * diff.num)
         IN IF diff.num > 0 /\ (RatGT(rate, sent) \/ RatGT(rate, Rat(c.ToSend, 1)))
              THEN sent ELSE rate
    ELSE Rat(0, 1)

\* The body of the loop that computes the rate: out[i].Rate, which stays
\* the zero of its type unless it is assigned.
Rate(c) ==
  IF c.Started.Valid /\ c.UpdatedAt.Valid
    THEN LET diff == Rat(c.UpdatedAt.Time - c.Started.Time, TicksPerMinute)
         IN IF RatGT(diff, Rat(0, 1))
              THEN LET sent == Rat(c.Sent, 1)
                       rate == Rat(sent.num * diff.den, sent.den * diff.num)
                   IN IF RatGT(rate, sent) \/ RatGT(rate, Rat(c.ToSend, 1))
                        THEN sent ELSE rate
              ELSE Rat(0, 1)
    ELSE Rat(0, 1)

NoStats == [Started |-> NullTime, UpdatedAt |-> NullTime, Sent |-> 0, ToSend |-> 0,
            Rate |-> Rat(0, 1), got |-> FALSE]

TestInit ==
  /\ ts = NoTest
  /\ stats = NoStats

\* The handler for a running campaign whose row the store returns with the
\* given counters and timestamps.
GetRunningCampaignStats(started, updated, sent, toSend) ==
  /\ LET c == [NoStats EXCEPT !.Started = started, !.UpdatedAt = updated,
                              !.Sent = sent, !.ToSend = toSend, !.got = TRUE]
     IN stats' = [c EXCEPT !.Rate = Rate(c)]
  /\ UNCHANGED <<campaign, now, pc, o, last, ts>>
  /\ UNCHANGED mvars

\* ---------------------------------------------------------- specifications
Init == CampaignInit /\ EmailerInit /\ PushInit /\ TestInit

StatusRequests ==
  \/ \E p \in Procs, status \in ReqStatuses : StatusGet(p, status)
  \/ \E p \in Procs : StatusPut(p)

\* Content updates are served one at a time (two of them only overwrite each
\* other's fields); status updates and deletions by every handler.
UpdateProcs == {1}

UpdateRequests ==
  \/ \E p \in UpdateProcs, body \in Bodies \cup {Absent}, sendAt \in Times \cup {Absent},
        sendLater \in BOOLEAN, fieldsOK \in BOOLEAN :
          UpdateGet(p, body, sendAt, sendLater, fieldsOK)
  \/ \E p \in UpdateProcs : UpdateValidate(p)
  \/ \E p \in UpdateProcs : UpdatePut(p)

DeleteRequests ==
  \/ \E p \in Procs : DeleteGet(p)
  \/ \E p \in Procs : DeletePut(p)

\* Status updates of one campaign, the delivery process and the clock.
StatusNext == StatusRequests \/ DeliveryCompletion \/ Tick

StatusSpec == Init /\ [][StatusNext]_vars

\* Content updates next to status updates.
ContentNext == UpdateRequests \/ StatusRequests \/ DeliveryCompletion

ContentSpec == Init /\ [][ContentNext]_vars

\* Deletions next to status updates.
DeleteNext == DeleteRequests \/ StatusRequests \/ DeliveryCompletion

DeleteSpec == Init /\ [][DeleteNext]_vars

\* Every handler of the campaign, the delivery process and the clock.
Next == StatusRequests \/ UpdateRequests \/ DeleteRequests \/ DeliveryCompletion \/ Tick

Spec == Init /\ [][Next]_vars

EmailerNext ==
  \/ (idx = 0 /\ \E srvs \in ServerLists : NewEmailerBegin(srvs))
  \/ NewEmailerEntry
  \/ NewEmailerReturn

\* The construction of the e-mail messenger.
EmailerSpec == Init /\ [][EmailerNext]_vars

\* The configurations the messenger is built from where Push and Close are
\* looked at: pools that open, no injection rule, the default format.
PlainServerLists ==
  UNION {[1..n -> {sv \in PushServer : sv.EmailFormat = "" /\ sv.InjectHeaders = <<>>}]
           : n \in 0..MaxServers}

\* Any format, no injection rule.
FormatServerLists ==
  UNION {[1..n -> {sv \in PushServer : sv.InjectHeaders = <<>>}] : n \in 0..MaxServers}

\* One server with any injection rules.
RuleServerLists ==
  [1..1 -> {sv \in PushServer : sv.Name = "a" /\ sv.EmailFormat = ""}]

\* One server, the default format, no rule.
OneServerLists ==
  [1..1 -> {sv \in PushServer : sv.Name = "a" /\ sv.EmailFormat = ""
                                  /\ sv.InjectHeaders = <<>>}]

Construction(lists) ==
  \/ (idx = 0 /\ \E srvs \in lists : NewEmailerBegin(srvs))
  \/ NewEmailerEntry
  \/ NewEmailerReturn

\* Push calls of the callers ps with the bodies, attachments and envelope
\* headers given.
PushCalls(ps, ms, attss, hdrss) ==
  \/ \E p \in ps, m \in ms, atts \in attss, hdrs \in hdrss : PushBuild(p, m, atts, hdrs)
  \/ \E p \in ps, ok \in BOOLEAN : PushSend(p, ok)

CloseCall ==
  \/ CloseBegin
  \/ \E i \in DOMAIN pools, ok \in BOOLEAN : CloseOne(i, ok)
  \/ CloseReturn

\* Concurrent Push calls next to a Close.
CloseNext ==
  \/ Construction(PlainServerLists)
  \/ PushCalls(Procs, {<<"txt">>}, {NilAtts}, {EmptyHeaders})
  \/ CloseCall

CloseSpec == Init /\ [][CloseNext]_vars

\* Push calls, one at a time, on messengers of every format.
PushNext ==
  \/ Construction(FormatServerLists)
  \/ PushCalls({1}, HtmlBodies, {NilAtts}, {EmptyHeaders})

PushSpec == Init /\ [][PushNext]_vars

\* Push calls on a server with injection rules.
HeaderNext ==
  \/ Construction(RuleServerLists)
  \/ PushCalls({1}, {<<"txt">>}, {NilAtts}, EnvHeaders)

HeaderSpec == Init /\ [][HeaderNext]_vars

\* Push calls with attachments, and the caller writing to its buffers.
AttachNext ==
  \/ Construction(OneServerLists)
  \/ PushCalls({1}, {<<"txt">>}, AttachmentLists, {EmptyHeaders})
  \/ \E i \in CallerBufs, b \in Buffers : CallerMutate(i, b)

AttachSpec == Init /\ [][AttachNext]_vars


\* The test-send request and the clock.
TestNext ==
  \/ \E c \in [fieldsOK : BOOLEAN, SendAt : NullTimes], emails \in 0..MaxSubs,
        known \in 0..MaxSubs : TestBegin(c, emails, known)
  \/ \E outcome \in SendOutcomes : TestSend(outcome)
  \/ TestReturn
  \/ Tick

TestSpec == Init /\ [][TestNext]_vars

\* The stats handler on every row of a running campaign.
RateNext ==
  \E started \in Stamps, updated \in Stamps, sent \in 0..MaxSent, toSend \in 0..MaxSent :
    GetRunningCampaignStats(started, updated, sent, toSend)

RateSpec == Init /\ [][RateNext]_vars

\* ------------------------------------------------------------------ properties
\* The transition table of the campaign state machine.
TransitionTable ==
  { <<"draft", "scheduled">>, <<"scheduled", "draft">>, <<"draft", "running">>,
    <<"paused", "running">>, <<"running", "paused">>, <<"running", "cancelled">>,
    <<"paused", "cancelled">> }

ValidTransition(from, to, sendAtValid) ==
  /\ <<from, to>> \in TransitionTable
  /\ (to = "scheduled" => sendAtValid)

ImmutableStatuses == {"running", "cancelled", "finished"}

\* C1: for every pair (current status, requested status) over the six
\* statuses, the handler goes on to write the requested status if and only
\* if the pair is a row of the transition table (draft -> scheduled with
\* send_at set), and what it then writes is the requested status.
C1_TransitionTableExact ==
  [][/\ \A p \in Procs, status \in Statuses :
          (StatusGet(p, status) /\ campaign.exists)
            => ((pc'[p] = "status")
                  <=> ValidTransition(campaign.Status, status, campaign.SendAt.Valid))
     /\ \A p \in Procs :
          (StatusPut(p) /\ campaign.exists /\ o[p].Status \in Statuses)
            => campaign'.Status = o[p].Status]_vars

\* C2: the stored status becomes finished only by a step of the delivery
\* process, never by a step of a client's status-update request.
C2_FinishedOnlyByDelivery ==
  [][(campaign.Status # "finished" /\ campaign'.Status = "finished")
       => DeliveryCompletion]_vars

C4_WriteIsTableEdge ==
  [][\A p \in Procs :
       (pc[p] = "status" /\ pc'[p] = "idle"
          /\ o[p].Status \in {"draft", "scheduled", "running", "paused", "cancelled"}
          /\ campaign'.Status # campaign.Status)
         => <<campaign.Status, campaign'.Status>> \in TransitionTable]_vars

\* C5: a content field of the stored campaign changes only while the stored
\* status is not running, cancelled or finished.
C5_ContentWriteOnlyWhileMutable ==
  [][(campaign'.Body # campaign.Body \/ campaign'.SendAt # campaign.SendAt)
       => campaign.Status \notin ImmutableStatuses]_vars

\* C6: a content update goes past its status check only when the status is
\* not running, cancelled or finished; it is refused with cantUpdate only
\* when the status is one of these, and then it returns without a store
\* update.
C6_ImmutableStatusRejectsUpdate ==
  [][/\ \A p \in Procs :
          (pc[p] = "idle" /\ pc'[p] = "validate")
            => campaign.Status \notin ImmutableStatuses
     /\ (last' # last /\ last'.res = "campaigns.cantUpdate")
          => (/\ campaign.Status \in ImmutableStatuses
              /\ campaign' = campaign
              /\ pc' = pc)]_vars

\* C6 witness: a content update of a finished campaign was refused.
C6_Witness ==
  /\ last = [kind |-> "update", res |-> "campaigns.cantUpdate"]
  /\ campaign.Status = "finished"

\* C7: the step in which a status update is refused as an invalid transition,
\* or a content update is refused because of the campaign's status, leaves the
\* stored campaign (status and content fields) as it was.
C7_RejectionLeavesCampaign ==
  [][(last' # last /\ last'.res \in {"invalidTransition", "campaigns.cantUpdate"})
       => campaign' = campaign]_vars

\* C7 witness: a status update of a cancelled campaign was refused as an
\* invalid transition.
C7_Witness ==
  /\ last = [kind |-> "status", res |-> "invalidTransition"]
  /\ campaign.Status = "cancelled"

\* C8: a request for "scheduled" goes past the handler's checks only if the
\* campaign's send_at is set and is not before the time of the request.
C8_ScheduleNeedsFutureSendAt ==
  [][\A p \in Procs :
       (pc[p] = "idle" /\ pc'[p] = "status" /\ o'[p].Status = "scheduled")
         => (campaign.SendAt.Valid /\ ~(campaign.SendAt.Time < now))]_vars

\* C9: a delete request that finds the campaign started (running, paused,
\* cancelled or finished) does not go on to the store's delete, and no step
\* removes a started campaign from the store.
C9_StartedCampaignNotDeleted ==
  [][/\ \A p \in Procs :
          (pc[p] = "idle" /\ pc'[p] = "delete")
            => campaign.Status \notin {"running", "paused", "cancelled", "finished"}
     /\ (campaign.exists
           /\ campaign.Status \in {"running", "paused", "cancelled", "finished"})
          => campaign'.exists]_vars

\* C10: when NewEmailer has returned an error, no Emailer is returned and
\* every pool opened during the attempt is closed.
C10_FailedConstructionLeavesNoPool ==
  ret = "err" => (e.nil /\ \A i \in DOMAIN pools : pools[i] = "closed")

\* The results of a Push whose message a pool took.
Handed == {"ok", "deliveryError"}

C13_ReturnedMessengerHasEntry ==
  ret = "ok" => (e.numServers >= 1 /\ Len(e.serverNames) >= 1)

\* C14: a Push sends through the pool of one entry of the messenger, the
\* entry stored under the name it selected, and that name is one of the
\* messenger's names; with one entry it is that entry.
C14_PushSelectsConfiguredEntry ==
  /\ [](\A p \in Procs : ppc[p] = "send" =>
          /\ \E n \in DOMAIN e.serverNames : e.serverNames[n] = em[p].key
          /\ e.servers[em[p].key] \in DOMAIN pools
          /\ e.numServers = 1 => em[p].key = e.serverNames[1])
  /\ [][\A p \in Procs : (ppc[p] = "send" /\ ppc'[p] = "idle") =>
          plast'.pool = e.servers[em[p].key]]_vars

\* A Push on a messenger of two entries went through its second pool.
C14_Witness ==
  /\ plast.res = "ok"
  /\ e.numServers = 2
  /\ plast.pool = 2

\* The values of auth_protocol a configuration may carry.
KnownAuthProtocols == {"", "none", "cram", "plain", "login"}

\* C15: NewEmailer goes past the auth switch for every auth_protocol among
\* "", none, cram, plain, login and returns an error for any other.
C15_AuthProtocolsAccepted ==
  [][(ret = "none" /\ idx \in 1..Len(servers)) =>
       /\ (servers[idx].AuthProtocol \in KnownAuthProtocols /\ servers[idx].poolOK)
            => ret' = "none"
       /\ servers[idx].AuthProtocol \notin KnownAuthProtocols => ret' = "err"]_vars

\* The values the injection rules add under the key X.
InjectedX(rules) ==
  LET h == InjectHeaders(EmptyHeaders, rules)
  IN IF <<"X">> \in DOMAIN h THEN h[<<"X">>] ELSE <<>>

\* C16: when the envelope carries a header X and a rule of the entry injects
\* under X, the message a pool took has the caller's values for X followed
\* by the injected ones.
C16_CallerHeaderThenInjected ==
  ( /\ plast.res \in Handed
    /\ <<"X">> \in DOMAIN plast.env.hdrs
    /\ InjectedX(servers[plast.pool].InjectHeaders) # <<>> )
    => /\ <<"X">> \in DOMAIN plast.em.Headers
       /\ plast.em.Headers[<<"X">>] =
            plast.env.hdrs[<<"X">>] \o InjectedX(servers[plast.pool].InjectHeaders)

\* A rule that adds a header: a colon, and a key and a value that are not
\* empty after trimming.
WellFormedRule(header) ==
  LET headerParts == SplitN2(header)
  IN /\ Len(headerParts) = 2
     /\ TrimSpace(headerParts[1]) # <<>>
     /\ TrimSpace(headerParts[2]) # <<>>

RECURSIVE HeadersOfWellFormed(_, _)
HeadersOfWellFormed(h, rules) ==
  IF rules = <<>> THEN h
  ELSE LET headerParts == SplitN2(Head(rules))
       IN HeadersOfWellFormed(
            IF WellFormedRule(Head(rules))
              THEN MIMEHeaderAdd(h, headerParts[1], TrimSpace(headerParts[2]))
              ELSE h,
            Tail(rules))

\* C17: the headers of the message Push built are those of the well-formed
\* rules of the entry, one trimmed value for each; a rule with no colon, or
\* whose key or value is empty or blank, adds nothing.
C17_MalformedRuleSkipped ==
  \A p \in Procs : ppc[p] = "send" =>
    em[p].Headers = HeadersOfWellFormed(EmptyHeaders, EntryOf(em[p].key).InjectHeaders)

\* C18: the message Push built carries, for format html, the body as HTML
\* and no text; for format plain, the text html2text derived and no HTML;
\* for the empty format, both.
C18_BodyPartsFollowFormat ==
  \A p \in Procs : ppc[p] = "send" =>
    LET format == EntryOf(em[p].key).EmailFormat
        m == env[p].m
        mtext == FromString(m).text
    IN /\ format = "html" => (em[p].HTML = m /\ em[p].Text = Nil)
       /\ format = "plain" => (em[p].HTML = Nil /\ em[p].Text = mtext)
       /\ format = "" => (em[p].HTML = m /\ em[p].Text = mtext)

\* Push built a message for a server of format plain from a body with text.
C18_Witness ==
  \E p \in Procs :
    /\ ppc[p] = "send"
    /\ EntryOf(em[p].key).EmailFormat = "plain"
    /\ em[p].HTML = Nil
    /\ em[p].Text = <<"txt">>

\* C19: a Push whose body html2text fails on returns the error at once: it
\* builds no message, reaches no pool, and leaves the messenger, its pools
\* and the other calls as they were.
C19_RenderErrorAbortsPush ==
  [][/\ \A p \in Procs :
          (ppc[p] = "idle" /\ ppc'[p] = "send") => ~FromString(env'[p].m).err
     /\ (plast' # plast /\ plast'.res = "renderError") =>
          /\ FromString(plast'.env.m).err
          /\ plast'.pool = 0
          /\ plast'.em = NoEmail
          /\ ppc' = ppc
          /\ em' = em
          /\ e' = e
          /\ pools' = pools]_vars

\* A Push returned the error of html2text on a messenger with an entry.
C19_Witness ==
  /\ plast.res = "renderError"
  /\ plast.pool = 0
  /\ e.numServers >= 1
  /\ \A i \in DOMAIN pools : pools[i] = "open"

\* The contents of the attachments of a message, as the pool reads them.
AttContents(msg) == [i \in DOMAIN msg.Attachments |-> ContentOf(msg.Attachments[i])]

\* C20: the message Push builds has, for every attachment of the caller,
\* the same filename and MIME header and, in a buffer of its own, the bytes
\* the caller's slice held; a later write of the caller to its buffer
\* changes the content of no message in flight or taken by a pool.
C20_AttachmentsCopied ==
  [][/\ \A p \in Procs :
          (ppc[p] = "idle" /\ ppc'[p] = "send" /\ ~env'[p].atts.nil) =>
            LET fs == env'[p].atts.list
            IN /\ Len(em'[p].Attachments) = Len(fs)
               /\ \A i \in DOMAIN fs :
                    /\ em'[p].Attachments[i].Filename = fs[i].Name
                    /\ em'[p].Attachments[i].Header = fs[i].Header
                    /\ em'[p].Attachments[i].Content.alias = 0
                    /\ AttContents(em[p])'[i]
                         = SubSeq(cbuf[fs[i].Content.buf], 1, fs[i].Content.len)
     /\ cbuf' # cbuf =>
          /\ \A p \in Procs : AttContents(em[p])' = AttContents(em[p])
          /\ AttContents(plast.em)' = AttContents(plast.em)]_vars

\* A pool took an attachment whose bytes differ from what the caller's
\* buffer holds now.
C20_Witness ==
  /\ plast.res = "ok"
  /\ Len(plast.em.Attachments) = 1
  /\ plast.env.atts.list[1].Content.len >= 1
  /\ AttContents(plast.em)[1]
       # SubSeq(cbuf[plast.env.atts.list[1].Content.buf], 1,
                plast.env.atts.list[1].Content.len)

\* C21: the test-send handles its subscribers in order, one sendTestMessage
\* each; every subscriber before the one handled last got its Push and the
\* Push succeeded; a subscriber whose compile, render or Push fails is the
\* last one handled and the request returns the error; the request returns
\* ok only when the Push of every subscriber succeeded.
C21_TestSendStopsAtFirstError ==
  /\ Len(ts.out) <= ts.n
  /\ \A j \in 1..(Len(ts.out) - 1) : ts.out[j] = "ok"
  /\ (\E j \in DOMAIN ts.out : ts.out[j] # "ok")
       => (ts.pc = "done" /\ ts.res = "campaigns.errorSendTest")
  /\ ts.res = "ok"
       => (ts.n >= 1 /\ Len(ts.out) = ts.n /\ \A j \in DOMAIN ts.out : ts.out[j] = "ok")

\* The Push for the second of three subscribers failed and the request
\* returned the error with the third not handled.
C21_Witness ==
  /\ ts.pc = "done"
  /\ ts.res = "campaigns.errorSendTest"
  /\ ts.n = 3
  /\ ts.out = <<"ok", "pushErr">>

\* C22: the rate reported is zero when started_at or updated_at is absent
\* and when updated_at is not after started_at, whatever sent and to_send.
C22_RateZeroWithoutElapsedTime ==
  ( /\ stats.got
    /\ \/ ~stats.Started.Valid
       \/ ~stats.UpdatedAt.Valid
       \/ stats.UpdatedAt.Time - stats.Started.Time <= 0 )
    => stats.Rate.num = 0

\* A row with messages sent whose updated_at is before its started_at got
\* the rate zero.
C22_Witness ==
  /\ stats.got
  /\ stats.Started.Valid
  /\ stats.UpdatedAt.Valid
  /\ stats.UpdatedAt.Time < stats.Started.Time
  /\ stats.Sent > 0
  /\ stats.Rate.num = 0

\* sent divided by the minutes from started_at to updated_at.
SentPerMinute(c) ==
  Rat(c.Sent * TicksPerMinute, c.UpdatedAt.Time - c.Started.Time)

\* C23: with both timestamps and a positive elapsed time the rate reported
\* is sent per minute, unless that exceeds sent or to_send, and then it is
\* sent; it never exceeds sent.
C23_RateIsClampedQuotient ==
  ( /\ stats.got
    /\ stats.Started.Valid
    /\ stats.UpdatedAt.Valid
    /\ stats.UpdatedAt.Time - stats.Started.Time > 0 )
    => /\ IF \/ RatGT(SentPerMinute(stats), Rat(stats.Sent, 1))
             \/ RatGT(SentPerMinute(stats), Rat(stats.ToSend, 1))
            THEN RatEQ(stats.Rate, Rat(stats.Sent, 1))
            ELSE RatEQ(stats.Rate, SentPerMinute(stats))
       /\ ~RatGT(stats.Rate, Rat(stats.Sent, 1))

\* A quotient below sent and above to_send was reported as sent.
C23_Witness ==
  /\ stats.got
  /\ stats.Started.Valid
  /\ stats.UpdatedAt.Valid
  /\ stats.UpdatedAt.Time - stats.Started.Time > 0
  /\ RatGT(Rat(stats.Sent, 1), SentPerMinute(stats))
  /\ RatGT(SentPerMinute(stats), Rat(stats.ToSend, 1))
  /\ RatEQ(stats.Rate, Rat(stats.Sent, 1))

\* C24: the step of a Push that calls the send of its pool is its last: the
\* call returns with the result of that send, on the pool of the entry it
\* selected, and holds no message to send again.
C24_OneSendPerPush ==
  [][\A p \in Procs :
       (ppc[p] = "send" /\ plast' # plast /\ plast'.p = p) =>
         /\ ppc'[p] = "idle"
         /\ em'[p] = NoEmail
         /\ plast'.pool = e.servers[em[p].key]
         /\ plast'.res \in {PoolSend(e.servers[em[p].key], TRUE).res,
                            PoolSend(e.servers[em[p].key], FALSE).res}]_vars

\* A Push returned the error of the transport and is over.
C24_Witness ==
  /\ plast.res = "deliveryError"
  /\ plast.open
  /\ ppc[plast.p] = "idle"
  /\ em[plast.p] = NoEmail

\* The names that have an entry in e.servers.
MapKeys == {n \in Names : e.servers[n] # 0}

\* C25: after NewEmailer has returned a messenger, its list of names has no
\* duplicate, is as long as numServers and as the map has entries, every
\* name of the list is a key of the map, and every pool that was opened
\* belongs to exactly one entry of the map.
C25_NamesAndPoolsMatchMap ==
  ret = "ok" =>
    /\ \A i, j \in DOMAIN e.serverNames : i # j => e.serverNames[i] # e.serverNames[j]
    /\ Len(e.serverNames) = e.numServers
    /\ e.numServers = Cardinality(MapKeys)
    /\ \A i \in DOMAIN e.serverNames : e.serverNames[i] \in MapKeys
    /\ \A i \in DOMAIN pools : Cardinality({n \in MapKeys : e.servers[n] = i}) = 1

====
